---- MODULE Spec2Model ----
(***************************************************************************)
(* Model of echobench (src/src/main.rs): the driver thread `main`, the     *)
(* worker threads it spawns, the shared stop flag and the echo server the  *)
(* workers talk to.                                                        *)
(*                                                                         *)
(* Threads interleave at their blocking or shared-memory operations:       *)
(* socket, connect, the load of the stop flag, write_all, read_exact,      *)
(* println!, the message a panic writes to stderr, spawn, sleep, the store *)
(* of the stop flag, join.  Local computation between two such operations  *)
(* is folded into the step that follows it; what a thread does after its   *)
(* last such operation (it drops its socket and its clone of the flag and  *)
(* ends) is folded into the step of that operation.  A call that is        *)
(* blocked has no step to take.                                            *)
(*                                                                         *)
(* A panic first writes its message to stderr and then unwinds.  A panic   *)
(* inside a worker ends that thread only; a panic of `main` (or its        *)
(* return) ends the process and with it every worker.                      *)
(***************************************************************************)
EXTENDS Integers, Sequences, FiniteSets, TLC

\* ---------------------------------------------------------------- bounds
MaxWorkers  == 2   \* largest value of `number` explored
MaxCount    == 2   \* largest number of round trips one worker starts
MaxDuration == 2   \* largest value of `duration` explored (seconds)
MaxLen      == 1   \* the non-zero numeral given to -l
MinHard     == 3   \* the smaller of the two hard limits explored
MinSoft     == 1   \* the smaller of the two soft limits explored
SocketCapacity == 1000000  \* payloads up to this size fit the socket
                           \* buffers of a connection whose peer does not read
AllocSure      == 1000000  \* buffers up to this size are always allocated

\* ------------------------------------------------------------- constants
DefaultLength   == 512   \* .parse::<usize>().unwrap_or(512)
DefaultDuration == 60    \* .parse::<u64>().unwrap_or(60)
DefaultNumber   == 50    \* .parse::<u32>().unwrap_or(50)
StdFiles        == 3     \* the 3 of number as u64 + 3: stdin, stdout, stderr

\* ------------------------------------------------------------ vocabulary
Workers == 0 .. (MaxWorkers - 1)

\* What the peer of the connections does.
\*   echo   : accepts, echoes every message
\*   close  : accepts, then closes the connection at once
\*   silent : accepts, never replies, never closes
\*   refuse : no connection can be established
\*   flaky  : any of the above, call by call (it may hold a call for ever)
Servers == {"echo", "close", "silent", "refuse", "flaky"}

\* What a println! finds behind stdout.
\*   ok     : the line is written
\*   broken : the write fails (/dev/full, a closed pipe)
\*   full   : a pipe that is full and never read: the write blocks
Stdouts == {"ok", "broken", "full"}

\* What the message of a panic finds behind stderr.
\*   ok     : the message is written, or the write fails and is ignored
\*   full   : a pipe that is full and never read: the write blocks
Stderrs == {"ok", "full"}

\* the descriptors of stdin, stdout and stderr
Std == 0 .. (StdFiles - 1)

\* one more descriptor open at start: its number is below the soft limit
\* main sets when `number` is MaxWorkers, and not below it for any smaller
\* `number`
ExtraFd == StdFiles + MaxWorkers - 1

None == << >>

\* The text given to an option is a sequence of characters; a character is
\* a digit 0..9 or one of the three below.  The empty text is what
\* unwrap_or_default() makes of an option that was not given.
Minus  == 10
Letter == 11
Plus   == 12
IsDigit(ch) == ch \in 0 .. 9

\* the decimal numeral of n
RECURSIVE Numeral(_)
Numeral(n) == IF n < 10 THEN << n >>
                        ELSE Append(Numeral(n \div 10), n % 10)

\* the command line of Scenario A: -l 64 -t 1 -c 1
ScenarioA == [ len |-> << 6, 4 >>, dur |-> << 1 >>, num |-> << 1 >> ]

\* a text that is no numeral of an unsigned type: "-1"
InvalidArgs == { << Minus, 1 >> }

VARIABLES
    lenArg,     \* the text given to -l
    durArg,     \* the text given to -t
    numArg,     \* the text given to -c
    number,     \* config: connection count           (main.rs:77-81)
    duration,   \* config: seconds to run             (main.rs:72-76)
    length,     \* config: payload length             (main.rs:67-71)
    server,     \* behaviour of the peer at `address`
    rlim_max,   \* RLIMIT_NOFILE hard limit of the process
    rlim_cur,   \* RLIMIT_NOFILE soft limit of the process
    inherited,  \* the descriptor numbers open when main starts
    stdout,     \* what a println! finds behind descriptor 1
    stderr,     \* what the message of a panic finds behind descriptor 2
    stop,       \* the AtomicBool behind `stop`/`control`
    strong,     \* strong reference count of the Arc around the flag
    group,      \* join handles, in spawn order: the worker ids
    wpc,        \* per worker: where the thread is
    count,      \* per worker: the local `count`
    first,      \* per worker: what its first load of the stop flag returned:
                \* "none" before that load, then "clear" or "set"
    ret,        \* per worker: the value the closure returned, or None
    overrun,    \* per worker: round trips completed after the flag was set
    put,        \* per worker: bytes of out_buf the last write_all wrote
    got,        \* per worker: bytes the last read_exact put into in_buf
                \* (both 0 again once the worker has left the loop)
    dpc,        \* where `main` is
    elapsed,    \* seconds of the timed sleep that have passed
    joined,     \* number of handles already joined by the reduction
    acc,        \* accumulator of `reduce`: None or <<a, b>>
    summary     \* what the final println! printed: None or a record

vars == << lenArg, durArg, numArg, number, duration, length, server,
           rlim_max, rlim_cur, inherited, stdout, stderr, stop, strong, group,
           wpc, count, first, ret, overrun, put, got, dpc, elapsed, joined,
           acc, summary >>

config == << lenArg, durArg, numArg, number, duration, length, server,
             rlim_max, inherited, stdout, stderr >>

\* what only the worker threads change
wvars == << wpc, count, first, ret, overrun, put, got >>

\* ------------------------------------------------------- pure operators
\* mutant: the flag is created already set
StopNewSet == TRUE

\* AtomicBool::new(false)
StopNew == FALSE

\* mutant: the load keeps returning the initial value
LoadStopStale(flag) == FALSE

\* stop.load(Ordering::Relaxed): one location, so the load returns the
\* latest value in the flag's modification order.
LoadStop(flag) == flag

\* mutant: the store flips the flag
StoreStopToggle(old) == ~old

\* the flag after control.upgrade().unwrap().store(true, ..): true, whatever
\* it held
StoreStop(old) == TRUE

\* the identifier given to the k-th spawned worker, k counted from 0
WorkerId(k) == k

\* mutant: the failure is not recorded in the outcome
FailOutcomeDropped(c) == << c, 0 >>

\* mutant: the failure is recorded twice
FailOutcomeTwice(c) == << c, 2 >>

\* return (count, 1) on a write or read error
FailOutcome(c) == << c, 1 >>

\* mutant: leaving the loop at the stop flag is reported as an error
StopOutcomeAsError(c) == << c, 1 >>

\* (count, 0) after the loop
StopOutcome(c) == << c, 0 >>

\* mutant: the error count of the right operand is lost
ReduceLeftErrors(x, y) == << x[1] + y[1], x[2] >>

\* .reduce(|(a, b), (c, d)| (a + c, b + d))
Reduce(x, y) == << x[1] + y[1], x[2] + y[2] >>

\* one step of Iterator::reduce: the first item seeds the accumulator
ReduceStep(a, item) == IF a = None THEN item ELSE Reduce(a, item)

\* Iterator::reduce over a whole sequence of outcomes
RECURSIVE ReduceSeq(_)
ReduceSeq(s) ==
    IF Len(s) = 0 THEN None
    ELSE ReduceStep(ReduceSeq(SubSeq(s, 1, Len(s) - 1)), s[Len(s)])

\* n_req / duration when duration # 0
Speed(n_req, d) == n_req \div d

\* vec![0; length]: a buffer of a size the allocator may refuse is either
\* allocated or ends the process (handle_alloc_error aborts); an empty
\* buffer is not allocated at all.  (A length above isize::MAX, which makes
\* vec! panic instead, is beyond the integers of TLC.)
AllocOutcomes(len) == IF len <= AllocSure THEN {"ok"} ELSE {"ok", "abort"}

\* socket(), the first half of TcpStream::connect: the new socket gets the
\* lowest descriptor number that is free, and the call fails (EMFILE) when
\* no number below the soft limit is free
SocketOutcomes(free) == IF free <= 0 THEN {"err"} ELSE {"ok"}

\* connect(), the second half of TcpStream::connect, against the peer
ConnectOutcomes(srv) ==
    CASE srv = "refuse" -> {"err"}
      [] srv = "flaky"  -> {"ok", "err"}
      [] OTHER          -> {"ok"}

\* println!: the line is written, or the failed write makes it panic; on a
\* full pipe it has no outcome
PrintlnOutcomes(out) ==
    CASE out = "ok"     -> {"ok"}
      [] out = "broken" -> {"panic"}
      [] OTHER          -> {}

\* the message of a panic (the default panic hook) or of a failed
\* allocation, written to stderr before the thread unwinds or the process
\* aborts: it is written, or a failed write is ignored; on a full pipe the
\* write has no outcome
StderrOutcomes(err) == IF err = "full" THEN {} ELSE {"ok"}

\* the largest values of the parsed types, as numerals: u32 for -c, u64 for
\* -t, usize (64 bits) for -l
U32Max == << 4, 2, 9, 4, 9, 6, 7, 2, 9, 5 >>
U64Max == << 1, 8, 4, 4, 6, 7, 4, 4, 0, 7, 3, 7, 0, 9, 5, 5, 1, 6, 1, 5 >>

\* a text without the one leading '+' that parse accepts
Unsigned(txt) ==
    IF Len(txt) > 0 /\ txt[1] = Plus THEN SubSeq(txt, 2, Len(txt)) ELSE txt

\* a text of digits without its leading zeros
RECURSIVE Significant(_)
Significant(ds) ==
    IF Len(ds) > 0 /\ ds[1] = 0 THEN Significant(SubSeq(ds, 2, Len(ds)))
                                ELSE ds

\* a <= b for two texts of digits of the same length
RECURSIVE DigitsLeq(_, _)
DigitsLeq(a, b) ==
    IF Len(a) = 0 THEN TRUE
    ELSE IF a[1] # b[1] THEN a[1] < b[1]
    ELSE DigitsLeq(SubSeq(a, 2, Len(a)), SubSeq(b, 2, Len(b)))

\* the value of a text of digits is at most that of the numeral max
Fits(ds, max) ==
    LET sig == Significant(ds) IN
      \/ Len(sig) < Len(max)
      \/ Len(sig) = Len(max) /\ DigitsLeq(sig, max)

\* str::parse::<uN>() succeeds on an optional '+' followed by one or more
\* digits whose value fits the type
Parses(txt, max) ==
    LET ds == Unsigned(txt) IN
      /\ Len(ds) > 0
      /\ \A k \in 1 .. Len(ds) : IsDigit(ds[k])
      /\ Fits(ds, max)

\* the value of a text of digits
RECURSIVE DigitsValue(_)
DigitsValue(txt) ==
    IF Len(txt) = 0 THEN 0
    ELSE 10 * DigitsValue(SubSeq(txt, 1, Len(txt) - 1)) + txt[Len(txt)]

\* opt_str(..).unwrap_or_default().parse::<uN>().unwrap_or(default): the
\* numeral's value, or the default when the text does not parse
ParseOr(txt, max, default) ==
    IF Parses(txt, max) THEN DigitsValue(Significant(Unsigned(txt)))
                        ELSE default

\* the file descriptors the run asks for: number as u64 + 3
NeededFiles(n) == n + StdFiles

\* nofile_rlimit.rlim_max.min(number as u64 + 3)
SoftLimit(cur, max, n) ==
    IF max < NeededFiles(n) THEN max ELSE NeededFiles(n)

\* Weak::upgrade returns Some while a strong reference is left
Upgrade(s) == s > 0

\* the byte counts short of len that the peer is made to stop at
ShortCounts(len) == { n \in {0, len - 1} : n >= 0 /\ n < len }

\* how many bytes of a message the peer takes before the connection fails
\* (len: all of it)
PeerAccepts(srv, len) ==
    CASE srv \in {"echo", "silent"} -> {len}
      [] OTHER                      -> ShortCounts(len) \cup {len}

\* write_all is sure to return: the peer has closed, or the payload fits
\* the socket buffers.  A larger payload is taken whole only by a peer that
\* keeps reading; a peer that holds calls may hold this one.
WriteReturns(srv, len) ==
    \/ srv = "close"
    \/ srv \in {"echo", "silent"} /\ len <= SocketCapacity

\* read_exact is sure to return: the peer replies or closes
ReadReturns(srv) == srv \in {"echo", "close"}

\* how many bytes the peer sends back before it closes (len: the whole
\* echo; no value: it sends nothing and keeps the connection open)
PeerReplies(srv, len) ==
    CASE srv = "echo"   -> {len}
      [] srv = "close"  -> {0}
      [] srv = "silent" -> {}
      [] OTHER          -> ShortCounts(len) \cup {len}

\* write_all: Ok when the whole buffer was written, else the error
WriteAll(n, len) == IF n = len THEN "ok" ELSE "err"

\* read_exact: Ok when the buffer was filled, else the error (UnexpectedEof
\* when the peer closed early)
ReadExact(n, len) == IF n = len THEN "ok" ELSE "err"

\* the thread has panicked and is writing the message of the panic, before
\* it unwinds: at out_buf[length - 1] or the unwrap of connect
\* ("panicking"), or in the println! of a write or read error
Panicking(w) == wpc[w] \in {"panicking", "print_panicking"}

\* the thread ended by a panic
Panicked(w) == wpc[w] \in {"panicked", "print_panicked"}

\* the thread has ended: handle.join() returns
Terminated(w) == wpc[w] \in {"stopped", "failed"} \/ Panicked(w)

\* the workers that hold a socket: from socket() until the closure returns
\* or unwinds, the println! of an error and the message of its panic
\* included; a socket whose connect() failed is closed before connect returns
Holding ==
    { w \in Workers :
        wpc[w] \in {"connect", "check", "write", "read", "write_err",
                    "read_err", "print_panicking"} }

\* the descriptor numbers below lim that were open at start
LowFiles(lim) == { d \in inherited : d < lim }

\* the descriptor numbers below the soft limit that are free: every socket
\* of a worker has its number below the limit
FreeFiles ==
    rlim_cur - Cardinality(LowFiles(rlim_cur)) - Cardinality(Holding)

\* main has panicked: it writes the message of the panic, or has ended
MainPanicked == dpc \in {"panicking", "panicked"}

\* the process lives until main returns or has unwound from a panic, or an
\* allocation aborts
ProcessAlive == dpc \notin {"done", "panicked", "aborted"}

\* ----------------------------------------------------------------- Init
\* main has parsed its arguments (lines 53-84); nothing else has run.  The
\* command lines are those of numerals for all three options, that of
\* Scenario A, and those with a text for -l that does not parse, given with
\* at most one connection.
Init ==
    /\ \/ /\ lenArg \in { Numeral(0), Numeral(MaxLen) }
          /\ durArg \in { Numeral(0), Numeral(MaxDuration) }
          /\ numArg \in { Numeral(n) : n \in 0 .. MaxWorkers }
       \/ /\ lenArg \in InvalidArgs
          /\ durArg \in { Numeral(0), Numeral(MaxDuration) }
          /\ numArg \in { Numeral(0), Numeral(1) }
       \/ /\ lenArg = ScenarioA.len
          /\ durArg = ScenarioA.dur
          /\ numArg = ScenarioA.num
    /\ length = ParseOr(lenArg, U64Max, DefaultLength)
    /\ duration = ParseOr(durArg, U64Max, DefaultDuration)
    /\ number = ParseOr(numArg, U32Max, DefaultNumber)
    /\ server \in Servers
    /\ rlim_max \in {MinHard, NeededFiles(MaxWorkers) + 1}
    /\ rlim_cur \in {MinSoft, rlim_max}
    /\ \/ inherited = Std /\ stdout \in Stdouts /\ stderr = "ok"
       \/ inherited = Std /\ stdout \in {"ok", "broken"} /\ stderr = "full"
       \/ inherited = Std \cup {ExtraFd} /\ stdout = "ok" /\ stderr \in Stderrs
    /\ stop = StopNew
    /\ strong = 1
    /\ group = << >>
    /\ wpc = [w \in Workers |-> "unspawned"]
    /\ count = [w \in Workers |-> 0]
    /\ first = [w \in Workers |-> "none"]
    /\ ret = [w \in Workers |-> None]
    /\ overrun = [w \in Workers |-> 0]
    /\ put = [w \in Workers |-> 0]
    /\ got = [w \in Workers |-> 0]
    /\ dpc = "rlimit"
    /\ elapsed = 0
    /\ joined = 0
    /\ acc = None
    /\ summary = None

\* ---------------------------------------------------------------- driver
\* getrlimit, the check of the hard limit, setrlimit (lines 87-105)
Rlimit ==
    /\ dpc = "rlimit"
    /\ IF rlim_max < NeededFiles(number)
         THEN /\ dpc' = "panicking"
              /\ UNCHANGED rlim_cur
         ELSE /\ rlim_cur' = SoftLimit(rlim_cur, rlim_max, number)
              /\ dpc' = "spawn"
    /\ UNCHANGED << config, wvars, stop, strong, group, elapsed, joined, acc,
                    summary >>

\* one thread::spawn of the collect() at lines 110-135, with its
\* stop.clone()
Spawn ==
    /\ dpc = "spawn"
    /\ Len(group) < number
    /\ LET i == WorkerId(Len(group)) IN
         /\ group' = Append(group, i)
         /\ wpc' = [wpc EXCEPT ![i] = "start"]
    /\ strong' = strong + 1
    /\ UNCHANGED << config, rlim_cur, stop, count, first, ret, overrun, put,
                    got, dpc, elapsed, joined, acc, summary >>

\* mutant: `stop` is moved into the iterator and dropped with it
CollectDropsStop ==
    /\ dpc = "spawn"
    /\ Len(group) = number
    /\ dpc' = "sleep"
    /\ strong' = strong - 1
    /\ UNCHANGED << config, wvars, rlim_cur, stop, group, elapsed, joined,
                    acc, summary >>

\* collect() is complete; main, still holding `stop`, enters thread::sleep
Collect ==
    /\ dpc = "spawn"
    /\ Len(group) = number
    /\ dpc' = "sleep"
    /\ UNCHANGED << config, wvars, rlim_cur, stop, strong, group, elapsed,
                    joined, acc, summary >>

\* one second of thread::sleep(Duration::from_secs(duration)) passes
Tick ==
    /\ dpc = "sleep"
    /\ elapsed < duration
    /\ elapsed' = elapsed + 1
    /\ UNCHANGED << config, wvars, rlim_cur, stop, strong, group, dpc,
                    joined, acc, summary >>

\* mutant: the flag is set without waiting for the sleep to end
TriggerEarly ==
    /\ dpc = "sleep"
    /\ stop' = StoreStop(stop)
    /\ dpc' = "join"
    /\ UNCHANGED << config, wvars, rlim_cur, strong, group, elapsed, joined,
                    acc, summary >>

\* sleep returns; control.upgrade().unwrap().store(true, Relaxed)
Trigger ==
    /\ dpc = "sleep"
    /\ elapsed = duration
    /\ IF Upgrade(strong)
         THEN /\ stop' = StoreStop(stop)
              /\ dpc' = "join"
         ELSE /\ dpc' = "panicking"
              /\ UNCHANGED stop
    /\ UNCHANGED << config, wvars, rlim_cur, strong, group, elapsed, joined,
                    acc, summary >>

\* mutant: a worker that has not returned yet is skipped, not waited for
JoinNoWait ==
    /\ dpc = "join"
    /\ joined < number
    /\ LET w == group[joined + 1] IN
         /\ ~Panicked(w)
         /\ acc' = IF ret[w] = None THEN acc ELSE ReduceStep(acc, ret[w])
         /\ joined' = joined + 1
    /\ UNCHANGED << config, wvars, rlim_cur, stop, strong, group, dpc,
                    elapsed, summary >>

\* mutant: the join of a panicked worker is skipped instead of unwrapped
JoinLenient ==
    /\ dpc = "join"
    /\ joined < number
    /\ LET w == group[joined + 1] IN
         /\ Terminated(w)
         /\ acc' = IF Panicked(w) THEN acc ELSE ReduceStep(acc, ret[w])
         /\ joined' = joined + 1
    /\ UNCHANGED << config, wvars, rlim_cur, stop, strong, group, dpc,
                    elapsed, summary >>

\* the next handle.join().unwrap() of the lazy map, fed to reduce
Join ==
    /\ dpc = "join"
    /\ joined < number
    /\ LET w == group[joined + 1] IN
         /\ Terminated(w)
         /\ IF Panicked(w)
              THEN /\ dpc' = "panicking"
                   /\ UNCHANGED << joined, acc >>
              ELSE /\ acc' = ReduceStep(acc, ret[w])
                   /\ joined' = joined + 1
                   /\ dpc' = dpc
    /\ UNCHANGED << config, wvars, rlim_cur, stop, strong, group, elapsed,
                    summary >>

\* reduce(..).unwrap(), n_req / duration and the final println!
Report ==
    /\ dpc = "join"
    /\ joined = number
    /\ IF acc = None \/ duration = 0
         THEN /\ dpc' = "panicking"
              /\ UNCHANGED summary
         ELSE \E o \in PrintlnOutcomes(stdout) :
                IF o = "ok"
                  THEN /\ dpc' = "done"
                       /\ summary' = [ n_error |-> acc[2],
                                       speed   |-> Speed(acc[1], duration) ]
                  ELSE /\ dpc' = "panicking"
                       /\ UNCHANGED summary
    /\ UNCHANGED << config, wvars, rlim_cur, stop, strong, group, elapsed,
                    joined, acc >>

\* the message of main's panic has been written: main unwinds and the
\* process ends
PanicExit ==
    /\ dpc = "panicking"
    /\ \E o \in StderrOutcomes(stderr) : dpc' = "panicked"
    /\ UNCHANGED << config, wvars, rlim_cur, stop, strong, group, elapsed,
                    joined, acc, summary >>

\* --------------------------------------------------------------- workers
\* the buffers are set up (lines 115-117; out_buf[length - 1] panics for
\* length 0) and TcpStream::connect opens its socket; a failed socket()
\* makes the unwrap panic
Socket(w) ==
    /\ ProcessAlive
    /\ wpc[w] = "start"
    /\ \E a \in AllocOutcomes(length) :
         IF a = "abort"
           THEN wpc' = [wpc EXCEPT ![w] = "alloc_failed"]
           ELSE IF length = 0
             THEN wpc' = [wpc EXCEPT ![w] = "panicking"]
             ELSE \E r \in SocketOutcomes(FreeFiles) :
                    wpc' = [wpc EXCEPT ![w] = IF r = "ok" THEN "connect"
                                                         ELSE "panicking"]
    /\ UNCHANGED << config, rlim_cur, stop, strong, group, count, first, ret,
                    overrun, put, got, dpc, elapsed, joined, acc, summary >>

\* connect() returns; on an error the socket is closed inside
\* TcpStream::connect and the unwrap panics
Connect(w) ==
    /\ ProcessAlive
    /\ wpc[w] = "connect"
    /\ \E r \in ConnectOutcomes(server) :
         wpc' = [wpc EXCEPT ![w] = IF r = "ok" THEN "check" ELSE "panicking"]
    /\ UNCHANGED << config, rlim_cur, stop, strong, group, count, first, ret,
                    overrun, put, got, dpc, elapsed, joined, acc, summary >>

\* while !stop.load(Relaxed): either leave the loop with (count, 0) or go
\* on to the write
Check(w) ==
    /\ ProcessAlive
    /\ wpc[w] = "check"
    /\ first' = [first EXCEPT ![w] = IF @ # "none" THEN @
                                      ELSE IF LoadStop(stop) THEN "set"
                                      ELSE "clear"]
    /\ IF LoadStop(stop)
         THEN /\ wpc' = [wpc EXCEPT ![w] = "stopped"]
              /\ ret' = [ret EXCEPT ![w] = StopOutcome(count[w])]
              /\ strong' = strong - 1
              /\ put' = [put EXCEPT ![w] = 0]
              /\ got' = [got EXCEPT ![w] = 0]
         ELSE /\ count[w] < MaxCount
              /\ wpc' = [wpc EXCEPT ![w] = "write"]
              /\ ret' = ret
              /\ strong' = strong
              /\ UNCHANGED << put, got >>
    /\ UNCHANGED << config, rlim_cur, stop, group, count, overrun, dpc,
                    elapsed, joined, acc, summary >>

\* stream.write_all(&out_buf) returns
Write(w) ==
    /\ ProcessAlive
    /\ wpc[w] = "write"
    /\ \E n \in PeerAccepts(server, length) :
         /\ put' = [put EXCEPT ![w] = n]
         /\ wpc' = [wpc EXCEPT ![w] = IF WriteAll(n, length) = "ok"
                                         THEN "read" ELSE "write_err"]
    /\ UNCHANGED << config, rlim_cur, stop, strong, group, count, first,
                    ret, overrun, got, dpc, elapsed, joined, acc, summary >>

\* stream.read_exact(&mut in_buf) returns; count += 1 on success
Read(w) ==
    /\ ProcessAlive
    /\ wpc[w] = "read"
    /\ \E n \in PeerReplies(server, length) :
         /\ got' = [got EXCEPT ![w] = n]
         /\ IF ReadExact(n, length) = "ok"
              THEN /\ wpc' = [wpc EXCEPT ![w] = "check"]
                   /\ count' = [count EXCEPT ![w] = @ + 1]
                   /\ overrun' = [overrun EXCEPT ![w] = IF stop THEN @ + 1
                                                                ELSE @]
              ELSE /\ wpc' = [wpc EXCEPT ![w] = "read_err"]
                   /\ UNCHANGED << count, overrun >>
    /\ UNCHANGED << config, rlim_cur, stop, strong, group, first, ret, put,
                    dpc, elapsed, joined, acc, summary >>

\* the println! of line 122 or 127 returns and the closure returns
\* (count, 1), letting go of its socket and of its clone of `stop`; or the
\* println! panics
Println(w) ==
    /\ ProcessAlive
    /\ wpc[w] \in {"write_err", "read_err"}
    /\ \E o \in PrintlnOutcomes(stdout) :
         IF o = "ok"
           THEN /\ wpc' = [wpc EXCEPT ![w] = "failed"]
                /\ ret' = [ret EXCEPT ![w] = FailOutcome(count[w])]
                /\ strong' = strong - 1
           ELSE /\ wpc' = [wpc EXCEPT ![w] = "print_panicking"]
                /\ UNCHANGED << ret, strong >>
    /\ put' = [put EXCEPT ![w] = 0]
    /\ got' = [got EXCEPT ![w] = 0]
    /\ UNCHANGED << config, rlim_cur, stop, group, count, first, overrun, dpc,
                    elapsed, joined, acc, summary >>

\* the message of the worker's panic, or of its failed allocation, has been
\* written to stderr: the thread unwinds, dropping its socket, its buffers
\* and its clone of `stop`, and ends; after a failed allocation the process
\* aborts instead
Unwind(w) ==
    /\ ProcessAlive
    /\ wpc[w] \in {"alloc_failed", "panicking", "print_panicking"}
    /\ \E o \in StderrOutcomes(stderr) :
         IF wpc[w] = "alloc_failed"
           THEN /\ dpc' = "aborted"
                /\ UNCHANGED << wpc, strong >>
           ELSE /\ wpc' = [wpc EXCEPT ![w] = IF @ = "panicking"
                                               THEN "panicked"
                                               ELSE "print_panicked"]
                /\ strong' = strong - 1
                /\ dpc' = dpc
    /\ UNCHANGED << config, rlim_cur, stop, group, count, first, ret, overrun,
                    put, got, elapsed, joined, acc, summary >>

Worker(w) ==
    \/ Socket(w) \/ Connect(w) \/ Check(w) \/ Write(w) \/ Read(w)
    \/ Println(w) \/ Unwind(w)

Next ==
    \/ Rlimit
    \/ Spawn
    \/ Collect
    \/ Tick
    \/ Trigger
    \/ Join
    \/ Report
    \/ PanicExit
    \/ \E w \in Workers : Socket(w)
    \/ \E w \in Workers : Connect(w)
    \/ \E w \in Workers : Check(w)
    \/ \E w \in Workers : Write(w)
    \/ \E w \in Workers : Read(w)
    \/ \E w \in Workers : Println(w)
    \/ \E w \in Workers : Unwind(w)

Spec == Init /\ [][Next]_vars

\* The statement of line 139 executed once more, at any time after its
\* first execution while main is alive.  main never does this; the step is
\* here to ask what a further trigger would do.
Retrigger ==
    /\ dpc = "join"
    /\ Upgrade(strong)
    /\ stop' = StoreStop(stop)
    /\ UNCHANGED << config, wvars, rlim_cur, strong, group, dpc, elapsed,
                    joined, acc, summary >>

NextRetrigger == Next \/ Retrigger

SpecRetrigger == Init /\ [][NextRetrigger]_vars

\* the steps of the main thread
Driver ==
    Rlimit \/ Spawn \/ Collect \/ Tick \/ Trigger \/ Join \/ Report \/ PanicExit

\* the steps of a worker that are sure to come: its own computation, a
\* connect (the kernel bounds its wait), a println! or a message of a panic
\* that has an outcome (neither has a step on a full pipe), and a write_all
\* or read_exact that is sure to return
Returning(w) ==
    \/ Socket(w)
    \/ Connect(w)
    \/ Check(w)
    \/ Println(w)
    \/ Unwind(w)
    \/ WriteReturns(server, length) /\ Write(w)
    \/ ReadReturns(server) /\ Read(w)

\* Every thread is an OS thread of its own: the scheduler runs main and each
\* worker again and again, the sleep ends, and a call that is sure to return
\* does return.  A call that has no outcome (a read from a peer that never
\* replies, a println! to a full pipe, the message of a panic to a full
\* pipe) has no step, so that the thread stays where it is, and a call the
\* peer may hold for ever is not made to return.
FairSpec ==
    /\ Spec
    /\ WF_vars(Driver)
    /\ \A w \in Workers : WF_vars(Returning(w))

TypeOK ==
    /\ number \in 0 .. MaxWorkers
    /\ duration \in 0 .. MaxDuration
    /\ length \in (0 .. MaxLen) \cup {DefaultLength, 64}
    /\ server \in Servers
    /\ stop \in BOOLEAN
    /\ strong \in 1 .. (MaxWorkers + 1)
    /\ rlim_cur <= rlim_max
    /\ inherited \in {Std, Std \cup {ExtraFd}}
    /\ stdout \in Stdouts
    /\ stderr \in Stderrs
    /\ dpc \notin {"rlimit"} => FreeFiles >= 0
    /\ wpc \in [Workers -> {"unspawned", "start", "connect", "check", "write",
                            "read", "write_err", "read_err", "stopped",
                            "failed", "alloc_failed", "panicking",
                            "print_panicking", "panicked",
                            "print_panicked"}]
    /\ count \in [Workers -> 0 .. MaxCount]
    /\ first \in [Workers -> {"none", "clear", "set"}]
    /\ \A w \in Workers : put[w] \in 0 .. length /\ got[w] \in 0 .. length
    /\ dpc \in {"rlimit", "spawn", "sleep", "join", "done", "panicking",
               "panicked", "aborted"}
    /\ elapsed \in 0 .. MaxDuration
    /\ joined \in 0 .. MaxWorkers

\* ------------------------------------------------- vocabulary of claims
\* the workers main has spawned so far
Spawned == { group[k] : k \in 1 .. Len(group) }

\* the workers that ended through a write or read failure
FailedWorkers == { w \in Workers : wpc[w] = "failed" }

\* a worker whose TcpStream::connect returned an error (its unwrap panicked)
ConnectFailed(w) == wpc[w] \in {"panicking", "panicked"} /\ length >= 1

\* a worker whose write_all or read_exact returned an error
IoFailed(w) ==
    wpc[w] \in {"write_err", "read_err", "failed", "print_panicking",
                "print_panicked"}

\* sum of the local counters of a set of workers
RECURSIVE SumCount(_)
SumCount(S) ==
    IF S = {} THEN 0
    ELSE LET w == CHOOSE x \in S : TRUE IN count[w] + SumCount(S \ {w})

\* the outcomes of the joined workers, taken in the order p
OutcomesInOrder(p) == [k \in 1 .. number |-> ret[group[p[k]]]]

\* ------------------------------------------------------------------- C1
\* C1: when the summary has been printed, every spawned worker had
\* terminated, and the aggregate equals the sum of the worker outcomes:
\* totalRequests is the sum of the workers' completed round trips,
\* totalErrors the number of workers that ended through a write or read
\* failure, and reducing the outcomes in any other order gives the same.
C1_AggregateIsSum ==
    summary # None =>
        /\ Len(group) = number
        /\ \A w \in Spawned : Terminated(w) /\ ret[w] # None
        /\ acc[1] = SumCount(Spawned)
        /\ acc[2] = Cardinality(FailedWorkers)
        /\ summary.n_error = acc[2]
        /\ \A p \in Permutations(1 .. number) :
              ReduceSeq(OutcomesInOrder(p)) = acc

\* a summary over two workers with different outcomes, one of them failed
C1_Witness ==
    /\ summary # None
    /\ number >= 2
    /\ acc[1] >= 2
    /\ wpc[group[1]] = "stopped"
    /\ wpc[group[number]] = "failed"

\* ------------------------------------------------------------------- C2
\* C2: a write or read failure of a worker never aborts the run: when every
\* worker connected and some worker failed in the loop, main does not
\* panic, and when the run is over all workers were joined and the summary
\* counts each failed worker once.
C2_MidRunFailureNotFatal ==
    ( /\ \E w \in Workers : IoFailed(w)
      /\ \A w \in Workers : wpc[w] \notin {"panicking", "panicked"} )
    => /\ ~MainPanicked
       /\ \A w \in Workers :
             wpc[w] \notin {"print_panicking", "print_panicked"}
       /\ dpc = "done" => /\ joined = number
                          /\ summary # None
                          /\ summary.n_error = Cardinality(FailedWorkers)

\* ------------------------------------------------------------------- C3
\* C3: once the stop flag is set a worker completes at most one further
\* round trip; a worker starts a write only from a flag check that read
\* false, and a check made while the flag is set ends the worker.
C3_BoundedOverrun ==
    /\ [](\A w \in Workers : overrun[w] <= 1)
    /\ [][\A w \in Workers :
            /\ (wpc[w] # "write" /\ wpc'[w] = "write")
                  => (wpc[w] = "check" /\ ~stop)
            /\ (stop /\ wpc[w] = "check" /\ wpc'[w] # "check")
                  => (wpc'[w] = "stopped" /\ ret'[w] = << count[w], 0 >>)
         ]_vars

\* a worker finished the round trip that was in flight when the flag was
\* set, then saw the flag and left the loop
C3_Witness ==
    \E w \in Workers : stop /\ overrun[w] = 1 /\ wpc[w] = "stopped"

\* ------------------------------------------------------------------- C4
\* C4: the stop flag starts false, never goes back from true to false, and
\* changes only in the step in which main stores to it, a step that changes
\* no worker.
C4_StopMonotone ==
    /\ stop = FALSE
    /\ [][stop => stop']_vars
    /\ [][(stop' # stop) => /\ dpc = "sleep" /\ dpc' = "join"
                            /\ wpc' = wpc /\ count' = count /\ ret' = ret
         ]_vars

\* the flag is set, has been seen by a worker, and the run went on to its end
C4_Witness ==
    /\ stop
    /\ dpc = "done"
    /\ \E w \in Workers : wpc[w] = "stopped"

\* ------------------------------------------------------------------- C5
\* C5: main's steps are ordered: all `number` workers are spawned, with
\* distinct identifiers, before the sleep begins; the flag is set exactly
\* once, at the end of the sleep; nothing is joined before the flag is set;
\* the summary is printed only after the last join.
C5_DriverOrder ==
    /\ [](/\ (dpc \in {"sleep", "join", "done"} \/ stop \/ elapsed > 0) =>
                /\ Len(group) = number
                /\ \A j, k \in 1 .. Len(group) : j # k => group[j] # group[k]
                /\ \A w \in Workers : w < number => wpc[w] # "unspawned"
          /\ elapsed > 0 => dpc \notin {"rlimit", "spawn"}
          /\ stop => elapsed = duration /\ dpc \notin {"rlimit", "spawn", "sleep"}
          /\ dpc \in {"join", "done"} => stop
          /\ (joined > 0 \/ acc # None) => stop
          /\ summary # None => joined = number /\ dpc = "done")
    /\ [][(stop' # stop) => (~stop /\ dpc = "sleep" /\ elapsed = duration)]_vars
    /\ [][(dpc = "sleep" /\ dpc' # "sleep") => (~stop /\ stop')]_vars
    /\ [][joined' # joined => stop /\ joined' = joined + 1]_vars
    /\ [][summary' # summary => joined = number /\ summary = None]_vars

\* a run with several workers and a sleep that took time reached the summary
C5_Witness ==
    /\ summary # None
    /\ number >= 2
    /\ elapsed >= 1
    /\ joined = number

\* ------------------------------------------------------------------- C6
\* C6: when a worker's connect failed, the reduction never completes and no
\* summary is printed, however many round trips the other workers made.
C6_ConnectFailureNoSummary ==
    (\E w \in Workers : ConnectFailed(w)) =>
        /\ summary = None
        /\ dpc # "done"
        /\ joined < number

\* the run has ended; one worker could not connect, another completed a
\* round trip
C6_Witness ==
    /\ dpc = "panicked"
    /\ \E w, v \in Workers : ConnectFailed(w) /\ count[v] >= 1

\* ------------------------------------------------------------------- C7
\* C7: a failed connect aborts the run at once: from the moment a worker's
\* connect has failed no worker completes a round trip and the timed sleep
\* makes no further progress.
C7_ConnectFailureAbortsAtOnce ==
    [][(\E w \in Workers : ConnectFailed(w))
          => (count' = count /\ elapsed' = elapsed)]_vars

\* ------------------------------------------------------------------- C8
\* C8 as stated: against a server that accepts and at once closes every
\* connection, a run (with a valid configuration) ends with every worker
\* failed at connect and no summary printed.
C8_SceneB_AsStated ==
    ( /\ server = "close"
      /\ number >= 1 /\ length >= 1 /\ duration >= 1
      /\ ~ProcessAlive )
    => /\ summary = None
       /\ \A w \in Spawned : ConnectFailed(w)

\* C8 amended: against such a server no connect fails on the server's
\* account: every connect() returns Ok and the worker enters the loop.  No
\* worker completes a round trip: a read_exact that returns, returns an
\* error.  A summary that is printed counts in totalErrors the workers that
\* ended through a write or read failure, every other worker having left
\* the loop at the stop flag, and its speed is 0.
C8_SceneB_Amended ==
    /\ [](server = "close" =>
            /\ \A w \in Workers : count[w] = 0
            /\ summary # None =>
                  /\ summary.speed = 0
                  /\ summary.n_error = Cardinality(FailedWorkers)
                  /\ \A w \in Spawned : wpc[w] \in {"failed", "stopped"})
    /\ [][server = "close" =>
            \A w \in Workers :
              /\ (wpc[w] = "connect" /\ wpc'[w] # "connect")
                    => wpc'[w] = "check"
              /\ (wpc[w] = "read" /\ wpc'[w] # "read")
                    => wpc'[w] = "read_err"
         ]_vars

\* the summary of a run against the closing server: every worker connected
\* and ended through its write or read failure
C8_Witness ==
    /\ server = "close"
    /\ summary # None
    /\ number >= 2
    /\ summary.n_error = number
    /\ \A w \in Spawned : wpc[w] = "failed"

\* ------------------------------------------------------------------- C9
\* C9: for payloadLength >= 1, connectionCount >= 1 and any
\* durationSeconds, main does not panic once every worker has been joined:
\* a run whose workers all connected and terminated ends with the summary.
C9_NoAbortAfterLastJoin ==
    ( /\ number >= 1 /\ length >= 1
      /\ joined = number
      /\ (MainPanicked \/ ~ProcessAlive) )
    => (dpc = "done" /\ summary # None)

\* ------------------------------------------------------------------ C10
\* C10: a worker has at most one outcome, with at most one failure in it,
\* and it never changes; so totalRequests >= 0 and totalErrors is at most
\* the number of workers joined, hence at most connectionCount.
C10_OutcomeBounds ==
    /\ [](/\ \A w \in Workers :
                ret[w] # None => /\ ret[w][1] >= 0
                                 /\ ret[w][2] \in {0, 1}
                                 /\ ret[w][2] = 1 <=> wpc[w] = "failed"
          /\ acc # None => /\ acc[1] >= 0
                           /\ acc[2] >= 0
                           /\ acc[2] <= joined
                           /\ joined <= number
          /\ summary # None => summary.n_error <= number)
    /\ [][\A w \in Workers : ret[w] # None => ret'[w] = ret[w]]_vars

\* every worker of the run failed after some round trip was completed:
\* totalErrors reaches connectionCount
C10_Witness ==
    /\ summary # None
    /\ number >= 2
    /\ acc[1] >= 1
    /\ acc[2] = number
    /\ \A w \in Spawned : ret[w][2] = 1

\* ------------------------------------------------------------------ C11
\* every connect succeeds and every call returns: the peer echoes, or
\* closes, the payload can be allocated and fits the socket buffers, the
\* configuration is a valid one, the hard limit on open files lets the run
\* start and the soft limit it leaves is enough (no descriptor open at start
\* has its number below that limit but the three standard ones), and stdout
\* can be written
ResponsivePeer ==
    /\ server \in {"echo", "close"}
    /\ length >= 1
    /\ length <= SocketCapacity
    /\ length <= AllocSure
    /\ number >= 1
    /\ rlim_max >= NeededFiles(number)
    /\ LowFiles(NeededFiles(number)) = Std
    /\ stdout = "ok"

\* C11: under a responsive peer and fair scheduling every worker
\* eventually terminates and main eventually prints the summary.
C11_TerminatesWithSummary ==
    ResponsivePeer =>
        <>(/\ \A w \in Workers : w < number => Terminated(w)
           /\ dpc = "done"
           /\ summary # None)

\* ------------------------------------------------------------------ C12
\* C12: main is never done, and no summary is printed, while a spawned
\* worker has not terminated; against a peer that never replies a worker
\* in read_exact stays there, also after the stop flag is set.
C12_BlockedReadStallsDriver ==
    /\ [](\A w \in Workers :
             (wpc[w] # "unspawned" /\ ~Terminated(w))
                => /\ dpc # "done"
                   /\ summary = None
                   /\ joined < number)
    /\ [][\A w \in Workers :
             (server = "silent" /\ wpc[w] = "read") => wpc'[w] = "read"]_vars

\* the flag is set, a worker sits in its read against the silent peer, all
\* the other workers have terminated, and main waits in the join
C12_Witness ==
    /\ server = "silent"
    /\ number >= 2
    /\ stop
    /\ dpc = "join"
    /\ \E w \in Spawned :
          /\ wpc[w] = "read"
          /\ \A v \in Spawned \ {w} : wpc[v] = "stopped"

\* ------------------------------------------------------------------ C13
\* C13: a worker's counter moves only by one, at a read_exact that filled
\* all `length` bytes after a write_all that wrote all `length` bytes; a
\* reply of fewer bytes is never counted and the worker it came to ends as
\* failed, with the outcome (round trips completed, 1).
C13_OnlyFullRoundTripsCount ==
    /\ [](\A w \in Workers :
            /\ wpc[w] = "read" => put[w] = length
            /\ wpc[w] = "read_err" => (put[w] = length /\ got[w] < length)
            /\ (IoFailed(w) /\ Terminated(w)) => wpc[w] = "failed")
    /\ [][\A w \in Workers :
            /\ count'[w] # count[w] =>
                  /\ count'[w] = count[w] + 1
                  /\ wpc[w] = "read"
                  /\ put[w] = length
                  /\ got'[w] = length
            /\ (wpc[w] = "read" /\ wpc'[w] # "read" /\ got'[w] < length) =>
                  /\ wpc'[w] = "read_err"
                  /\ count'[w] = count[w]
         ]_vars

\* ------------------------------------------------------------------ C14
\* C14: for every total and every configured duration, 0 included, a run
\* that has joined all its workers and gone on to the report, with a stdout
\* that can be written, has printed a speed, and that speed is the integer
\* quotient of the total of the workers' round trips, those completed after
\* the stop flag included, by the configured duration.
C14_SpeedIsTotalByDuration ==
    ( /\ number >= 1
      /\ joined = number
      /\ dpc # "join"
      /\ stdout = "ok" )
    => /\ summary # None
       /\ summary.speed * duration <= SumCount(Spawned)
       /\ SumCount(Spawned) < (summary.speed + 1) * duration

\* ------------------------------------------------------------------ C15
\* C15: a further trigger leaves the flag true and changes nothing else, so
\* workers terminate and outcomes are reduced exactly as without it.
C15_TriggerIdempotent ==
    [][Retrigger => (stop /\ stop' /\ UNCHANGED vars)]_vars

\* a further trigger can happen while a worker is still in its loop
C15_Witness ==
    /\ ENABLED Retrigger
    /\ \E w \in Workers : wpc[w] \in {"write", "read"}

\* ------------------------------------------------------------------ C16
\* the run of Scenario A
InScenarioA ==
    /\ server = "echo"
    /\ lenArg = ScenarioA.len /\ length = 64
    /\ durArg = ScenarioA.dur /\ duration = 1
    /\ numArg = ScenarioA.num /\ number = 1

\* C16 as stated: Scenario A ends with totalErrors = 0 and
\* totalRequests >= 1.
C16_SceneA_AsStated ==
    (InScenarioA /\ summary # None) =>
        /\ summary.n_error = 0
        /\ acc[1] >= 1

\* C16 amended: a summary printed for Scenario A has totalErrors = 0 and
\* totalRequests the number of round trips the worker completed, which is
\* >= 1 exactly when the worker's first load of the stop flag returned
\* false.  That load returns what the flag holds: true when it comes after
\* main's store, as it does when the worker's connect returns after the
\* store, and the worker then returns (0, 0).
C16_SceneA_Amended ==
    /\ []((InScenarioA /\ summary # None) =>
            /\ summary.n_error = 0
            /\ acc = << count[0], 0 >>
            /\ summary.speed = acc[1]
            /\ acc[1] >= 1 <=> first[0] = "clear")
    /\ [][(InScenarioA /\ first'[0] # first[0]) =>
            /\ first[0] = "none"
            /\ first'[0] = IF stop THEN "set" ELSE "clear"
            /\ stop => ret'[0] = << 0, 0 >>]_vars
    /\ [][(InScenarioA /\ stop /\ wpc[0] = "connect" /\ wpc'[0] = "check")
            => first'[0] = "none"]_vars

\* Scenario A ended with a summary that counts round trips
C16_Witness ==
    /\ InScenarioA
    /\ summary # None
    /\ summary.speed >= 1
    /\ summary.n_error = 0

\* ------------------------------------------------------------------ C17
\* C17: the step that adjusts the open-file limit either fails, when the
\* hard limit is below connectionCount + 3, or leaves a soft limit that is
\* at least connectionCount + 3, at most the hard limit and not lower than
\* before; no worker is spawned before it or after its failure.
C17_SoftLimitRaised ==
    /\ [](Len(group) > 0 =>
             /\ rlim_max >= NeededFiles(number)
             /\ rlim_cur >= NeededFiles(number))
    /\ [][(dpc = "rlimit" /\ dpc' # "rlimit") =>
            IF rlim_max < NeededFiles(number)
              THEN dpc' = "panicking" /\ rlim_cur' = rlim_cur
              ELSE /\ dpc' = "spawn"
                   /\ rlim_cur' >= NeededFiles(number)
                   /\ rlim_cur' <= rlim_max
                   /\ rlim_cur' >= rlim_cur
         ]_vars

\* ------------------------------------------------------------------ C18
\* the text given to an option is not a valid value for it
InvalidText(txt, max) == txt # << >> /\ ~Parses(txt, max)

\* C18: when -l, -t or -c is given an invalid value (a text that is no
\* numeral, or length 0) no worker is ever spawned.
C18_InvalidInputIsFatal ==
    ( \/ InvalidText(lenArg, U64Max) \/ InvalidText(durArg, U64Max)
      \/ InvalidText(numArg, U32Max)
      \/ (Parses(lenArg, U64Max) /\ length = 0) )
    => /\ Len(group) = 0
       /\ \A w \in Workers : wpc[w] = "unspawned"

\* ------------------------------------------------------------------ C19
\* C19: a worker opens one connection and never another; after a write or
\* read failure it makes no further write, read or connect, its counter no
\* longer changes and its outcome is (round trips completed, 1); a worker
\* that left the loop at the stop flag has the outcome (round trips
\* completed, 0).
C19_NoRetries ==
    /\ [](\A w \in Workers :
            /\ (IoFailed(w) /\ Terminated(w)) => ret[w] = << count[w], 1 >>
            /\ wpc[w] = "stopped" => ret[w] = << count[w], 0 >>)
    /\ [][\A w \in Workers :
            /\ wpc'[w] = "start" => wpc[w] \in {"unspawned", "start"}
            /\ wpc'[w] = "connect" => wpc[w] \in {"start", "connect"}
            /\ (IoFailed(w) \/ wpc[w] = "stopped") =>
                  /\ IF wpc[w] = "stopped" THEN wpc'[w] = "stopped"
                                            ELSE IoFailed(w)'
                  /\ count'[w] = count[w]
            /\ ret[w] # None => ret'[w] = ret[w]
         ]_vars

\* ------------------------------------------------------------------ C20
\* C20: a strong reference to the flag is alive in every state, main's
\* own, so the upgrade at the trigger never fails: the step that ends the
\* sleep always sets the flag.
C20_UpgradeNeverFails ==
    /\ [](/\ strong >= 1
          /\ strong = 1 + Cardinality({ w \in Spawned : ~Terminated(w) }))
    /\ [][(dpc = "sleep" /\ dpc' # "sleep") => (dpc' = "join" /\ stop')]_vars

\* the sleep is over and main is about to upgrade; every worker has
\* already failed and dropped its reference, main's is the only one left
C20_Witness ==
    /\ dpc = "sleep"
    /\ elapsed = duration
    /\ duration >= 1
    /\ number >= 2
    /\ \A w \in Spawned : wpc[w] = "failed"
    /\ strong = 1

====
